---- MODULE Spec2Model ----
(***************************************************************************)
(* A model of TranscriptProcessor (src/app.py): the retry loop of          *)
(* analyze_style, the example generator and its per-topic synthesis call,  *)
(* the example validator, the dataset builder (shuffle, split, JSONL       *)
(* persistence) and the process() pipeline that strings them together.     *)
(*                                                                         *)
(* Python values are encoded as records: a dict is the record of its keys  *)
(* (a missing key is a missing field), a value that is not a dict carries  *)
(* a pytype field, and None is NoneValue.                                  *)
(***************************************************************************)
EXTENDS Integers, Sequences, FiniteSets, TLC

VARIABLES
    pc,              \* position of the run: which statement executes next
    max_retries,     \* self.max_retries
    transcripts,     \* process(): the list load_transcripts returned
    ti,              \* process(): number of transcripts already processed
    attempt,         \* analyze_style(): the loop variable
    outcomes,        \* history: outcome of each HTTP request of the current call
    requests,        \* history: HTTP requests issued so far
    waits,           \* history: time.sleep(retry_delay) calls so far
    last_request,    \* history: what the latest HTTP request asked for
    style_analysis,  \* process(): the value analyze_style returned
    sample,          \* generate_training_examples(): random.sample(topics, 5)
    examples,        \* generate_training_examples(): the local list
    all_examples,    \* process(): the accumulated pool
    training_data,   \* create_datasets(): examples[:split_index]
    validation_data, \* create_datasets(): examples[split_index:]
    target,          \* _save_jsonl(): the file being written, or "none"
    written,         \* _save_jsonl(): items of the current list already visited
    files,           \* output/training.jsonl and output/validation.jsonl
    err,             \* the exception that ended the run, or NoError
    example,         \* _validate_example(): its argument
    verdict          \* _validate_example(): what the call produced

vars == << pc, max_retries, transcripts, ti, attempt, outcomes, requests, waits,
           last_request, style_analysis, sample, examples, all_examples,
           training_data, validation_data, target, written, files, err,
           example, verdict >>

retryVars == << attempt, outcomes, requests, waits, last_request >>
genVars   == << sample, examples >>
poolVars  == << all_examples >>
dataVars  == << training_data, validation_data, target, written >>
fileVars  == << files >>
validVars == << example, verdict >>

(***************************************************************************)
(* Bounds of the model.                                                    *)
(***************************************************************************)
MaxRetriesCfg == 4   \* configured retry limits explored: 0..MaxRetriesCfg
NumVariants == 2     \* distinct bodies the remote service may answer with

(***************************************************************************)
(* Values.                                                                 *)
(***************************************************************************)
NoneValue == [pytype |-> "NoneType"]
NoError == [exc |-> "none"]
NoRequest == [call |-> "none"]

\* The two output files: whether each exists, and its lines.
FileNames == {"training.jsonl", "validation.jsonl"}
NoFiles == [f \in FileNames |-> [exists |-> FALSE, lines |-> << >>]]

\* self.max_retries as set by the constructor.
DefaultMaxRetries == 3

\* The ways one HTTP exchange of analyze_style can fail, each with the
\* exception class the requests library raises for it: requests.post raises
\* ConnectionError or Timeout, raise_for_status raises HTTPError on a
\* non-2xx status, response.json() raises JSONDecodeError on a body that is
\* not JSON.
HttpFailures ==
    { [exc |-> "HTTPError", status |-> s] : s \in {400, 401, 429, 500} }
TransportFailures == { [exc |-> "ConnectionError"], [exc |-> "Timeout"] }
ParseFailures == { [exc |-> "JSONDecodeError"] }
Failures == HttpFailures \cup TransportFailures \cup ParseFailures

\* except requests.exceptions.RequestException: the classes the clause catches.
\* HTTPError, ConnectionError, Timeout and requests' JSONDecodeError all derive
\* from RequestException.
CaughtOnlyTransient(e) ==
    \/ e.exc \in {"ConnectionError", "Timeout"}
    \/ e.exc = "HTTPError" /\ e.status \in {429, 500}
IsRequestException(e) ==
    e.exc \in {"HTTPError", "ConnectionError", "Timeout", "JSONDecodeError"}

\* response.json() of a successful analysis request: an opaque envelope. The
\* model tags it with the text it analyses so that its origin stays visible.
AnalysisBodies(text) ==
    { [analysis_of |-> text, variant |-> v] : v \in 1..NumVariants }

(***************************************************************************)
(* analyze_style(text): lines 94-113.                                      *)
(***************************************************************************)
\* The text handed to analyze_style were it always that of the first
\* transcript.
FirstText == transcripts[1].content
CurrentText == transcripts[ti + 1].content

\* for attempt in range(self.max_retries): the loop test. An exhausted range
\* falls off the end of the function, which returns None.
LoopHead ==
    /\ pc = "loop"
    /\ IF attempt < max_retries
          THEN /\ pc' = "request"
               /\ UNCHANGED style_analysis
          ELSE /\ pc' = "analyzed"
               /\ style_analysis' = NoneValue
    /\ UNCHANGED << max_retries, transcripts, ti, retryVars, genVars, poolVars,
                    dataVars, fileVars, err, validVars >>

\* if attempt == self.max_retries - 1: the handler re-raises.
LastAttemptOffByOne(a) == a = max_retries
IsLastAttempt(a) == a = max_retries - 1

\* The handler's time.sleep(self.retry_delay): one wait per handled failure.
NoSleep(w) == w
SleepOnce(w) == w + 1

\* One pass through the try block: requests.post, raise_for_status, json().
Request ==
    /\ pc = "request"
    /\ requests' = requests + 1
    /\ last_request' = [call |-> "analyze", text |-> CurrentText]
    /\ \/ \E body \in AnalysisBodies(CurrentText) :
            /\ outcomes' = Append(outcomes, [exc |-> "ok"])
            /\ style_analysis' = body
            /\ pc' = "analyzed"
            /\ UNCHANGED err
       \/ \E e \in Failures :
            /\ outcomes' = Append(outcomes, e)
            /\ UNCHANGED style_analysis
            /\ IF ~IsRequestException(e) \/ IsLastAttempt(attempt)
                  THEN /\ pc' = "failed"
                       /\ err' = e
                  ELSE /\ pc' = "sleep"
                       /\ UNCHANGED err
    /\ UNCHANGED << max_retries, transcripts, ti, attempt, waits, genVars,
                    poolVars, dataVars, fileVars, validVars >>

\* Sleep with the attempt counter left as it was: a retry that does not
\* count.
SleepForgetsAttempt ==
    /\ pc = "sleep"
    /\ waits' = SleepOnce(waits)
    /\ attempt' = attempt
    /\ pc' = "loop"
    /\ UNCHANGED << max_retries, transcripts, ti, outcomes, requests,
                    last_request, style_analysis, genVars, poolVars, dataVars,
                    fileVars, err, validVars >>

\* time.sleep(self.retry_delay), then the next iteration.
Sleep ==
    /\ pc = "sleep"
    /\ waits' = SleepOnce(waits)
    /\ attempt' = attempt + 1
    /\ pc' = "loop"
    /\ UNCHANGED << max_retries, transcripts, ti, outcomes, requests,
                    last_request, style_analysis, genVars, poolVars, dataVars,
                    fileVars, err, validVars >>

(***************************************************************************)
(* One call of analyze_style on its own, under every configured limit.     *)
(***************************************************************************)
InitRetry ==
    /\ pc = "loop"
    /\ max_retries \in 0..MaxRetriesCfg
    /\ transcripts = << [filename |-> "a.txt", content |-> "text-a"] >>
    /\ ti = 0
    /\ attempt = 0
    /\ outcomes = << >>
    /\ requests = 0
    /\ waits = 0
    /\ last_request = NoRequest
    /\ style_analysis = NoneValue
    /\ sample = << >>
    /\ examples = << >>
    /\ all_examples = << >>
    /\ training_data = << >>
    /\ validation_data = << >>
    /\ target = "none"
    /\ written = 0
    /\ files = NoFiles
    /\ err = NoError
    /\ example = NoneValue
    /\ verdict = "none"

NextRetry == LoopHead \/ Request \/ Sleep

SpecRetry == InitRetry /\ [][NextRetry]_vars

(***************************************************************************)
(* generate_training_examples(style_analysis) and generate_post_from_style *)
(* (style_analysis, topic): lines 115-177.                                 *)
(***************************************************************************)
topics ==
    << "industry insights", "professional growth", "innovation", "leadership",
       "technology trends", "workplace culture", "success stories",
       "team building", "market analysis", "future predictions",
       "personal development", "problem solving", "change management",
       "strategic thinking" >>
Topics == { topics[i] : i \in 1..Len(topics) }

\* random.sample(topics, 5): the number of topics drawn.
SampleSize == 5

\* The model draws its samples among the first TopicWindow topics of the pool.
TopicWindow == 6
ExploredTopics ==
    { topics[i] : i \in 1..(IF TopicWindow < Len(topics) THEN TopicWindow
                                                        ELSE Len(topics)) }

\* random.sample(population, k): k elements in selection order, no element
\* drawn twice.
SampleWithReplacement(population, k) == [1..k -> population]
random_sample(population, k) ==
    { s \in [1..k -> population] :
        \A i, j \in 1..k : i # j => s[i] # s[j] }

\* response.json()['choices'][0]['message']['content'] of a successful
\* synthesis request: opaque text. The model has the service answer a request
\* with a text that names the topic and the style analysis the request
\* carried, so that the origin of a text stays visible.
StyleTag(sa) ==
    IF sa = NoneValue THEN "null"
    ELSE sa.analysis_of \o "/" \o ToString(sa.variant)
SynthTexts(sa, topic) ==
    { "post about " \o topic \o " in the style of " \o StyleTag(sa) }

\* A 2xx response whose JSON lacks choices[0].message.content: the subscript
\* chain of line 177 raises.
FormatFailures == { [exc |-> "KeyError"], [exc |-> "IndexError"] }
SynthFailures == Failures \cup FormatFailures

SystemPersona ==
    "You are an assistant that writes social media posts matching the speaker's authentic voice and style."
UserPrompt(topic) == "Write a social media post about " \o topic

\* The dict literal of lines 127-142.
MakeExample(topic, text) ==
    [messages |-> << [role |-> "system", content |-> SystemPersona],
                     [role |-> "user", content |-> UserPrompt(topic)],
                     [role |-> "assistant", content |-> text] >>]

\* examples = []; the evaluation of random.sample(topics, 5) (lines 125-126),
\* with the sample drawn from a set of outcomes of random.sample. The frame of
\* analyze_style is gone by now.
GenerateStartFrom(samples) ==
    /\ pc = "analyzed"
    /\ \E s \in samples : sample' = s
    /\ examples' = << >>
    /\ attempt' = 0
    /\ outcomes' = << >>
    /\ pc' = "synth"
    /\ UNCHANGED << max_retries, transcripts, ti, requests, waits, last_request,
                    style_analysis, poolVars, dataVars, fileVars, err,
                    validVars >>

GenerateStart == GenerateStartFrom(random_sample(ExploredTopics, SampleSize))

\* Synth with a handler around the synthesis call that ends the loop and
\* returns the examples made so far.
SynthKeepsPartial ==
    /\ pc = "synth"
    /\ Len(examples) < Len(sample)
    /\ LET topic == sample[Len(examples) + 1] IN
         /\ requests' = requests + 1
         /\ last_request' = [call |-> "synth", style_analysis |-> style_analysis,
                             topic |-> topic]
         /\ \/ \E text \in SynthTexts(style_analysis, topic) :
                 /\ outcomes' = << [exc |-> "ok"] >>
                 /\ examples' = Append(examples, MakeExample(topic, text))
                 /\ pc' = "synth"
                 /\ UNCHANGED << sample, err >>
            \/ \E e \in SynthFailures :
                 /\ outcomes' = << e >>
                 /\ pc' = "generated"
                 /\ UNCHANGED << examples, sample, err >>
    /\ UNCHANGED << max_retries, transcripts, ti, attempt, waits, style_analysis,
                    poolVars, dataVars, fileVars, validVars >>

\* Synth with a default for a response that lacks the generated text: the
\* example gets an empty assistant content and the loop goes on.
SynthDefaultsMissingText ==
    /\ pc = "synth"
    /\ Len(examples) < Len(sample)
    /\ LET topic == sample[Len(examples) + 1] IN
         /\ requests' = requests + 1
         /\ last_request' = [call |-> "synth", style_analysis |-> style_analysis,
                             topic |-> topic]
         /\ \/ \E text \in SynthTexts(style_analysis, topic) :
                 /\ outcomes' = << [exc |-> "ok"] >>
                 /\ examples' = Append(examples, MakeExample(topic, text))
                 /\ pc' = "synth"
                 /\ UNCHANGED << sample, err >>
            \/ \E e \in FormatFailures :
                 /\ outcomes' = << e >>
                 /\ examples' = Append(examples, MakeExample(topic, ""))
                 /\ pc' = "synth"
                 /\ UNCHANGED << sample, err >>
            \/ \E e \in Failures :
                 /\ outcomes' = << e >>
                 /\ examples' = << >>
                 /\ sample' = << >>
                 /\ pc' = "failed"
                 /\ err' = e
    /\ UNCHANGED << max_retries, transcripts, ti, attempt, waits, style_analysis,
                    poolVars, dataVars, fileVars, validVars >>

\* One iteration of the loop of lines 126-143: the next topic of the sample,
\* one call of generate_post_from_style, which issues one HTTP request
\* (lines 170-177) inside no try block, then examples.append. An exception
\* leaves generate_training_examples and its locals are gone.
Synth ==
    /\ pc = "synth"
    /\ Len(examples) < Len(sample)
    /\ LET topic == sample[Len(examples) + 1] IN
         /\ requests' = requests + 1
         /\ last_request' = [call |-> "synth", style_analysis |-> style_analysis,
                             topic |-> topic]
         /\ \/ \E text \in SynthTexts(style_analysis, topic) :
                 /\ outcomes' = << [exc |-> "ok"] >>
                 /\ examples' = Append(examples, MakeExample(topic, text))
                 /\ pc' = "synth"
                 /\ UNCHANGED << sample, err >>
            \/ \E e \in SynthFailures :
                 /\ outcomes' = << e >>
                 /\ examples' = << >>
                 /\ sample' = << >>
                 /\ pc' = "failed"
                 /\ err' = e
    /\ UNCHANGED << max_retries, transcripts, ti, attempt, waits, style_analysis,
                    poolVars, dataVars, fileVars, validVars >>

\* return examples (line 145), once the sample is used up.
\* GenerateReturn without waiting for the whole sample: the loop may be left
\* as soon as one example exists.
GenerateReturnEarly ==
    /\ pc = "synth"
    /\ Len(examples) >= 1
    /\ pc' = "generated"
    /\ UNCHANGED << max_retries, transcripts, ti, retryVars, style_analysis,
                    genVars, poolVars, dataVars, fileVars, err, validVars >>

GenerateReturn ==
    /\ pc = "synth"
    /\ Len(examples) = Len(sample)
    /\ pc' = "generated"
    /\ UNCHANGED << max_retries, transcripts, ti, retryVars, style_analysis,
                    genVars, poolVars, dataVars, fileVars, err, validVars >>

(***************************************************************************)
(* One call of generate_training_examples on its own, for every style      *)
(* analysis the analysis call can return.                                  *)
(***************************************************************************)
InitGen ==
    /\ pc = "analyzed"
    /\ max_retries = DefaultMaxRetries
    /\ transcripts = << [filename |-> "a.txt", content |-> "text-a"] >>
    /\ ti = 0
    /\ attempt = 0
    /\ outcomes = << >>
    /\ requests = 0
    /\ waits = 0
    /\ last_request = NoRequest
    /\ style_analysis \in AnalysisBodies(CurrentText)
    /\ sample = << >>
    /\ examples = << >>
    /\ all_examples = << >>
    /\ training_data = << >>
    /\ validation_data = << >>
    /\ target = "none"
    /\ written = 0
    /\ files = NoFiles
    /\ err = NoError
    /\ example = NoneValue
    /\ verdict = "none"

NextGen == GenerateStart \/ Synth \/ GenerateReturn

SpecGen == InitGen /\ [][NextGen]_vars

(***************************************************************************)
(* _validate_example(example): lines 208-224.                              *)
(***************************************************************************)
IsDict(v) == "pytype" \notin DOMAIN v
required_roles == << "system", "user", "assistant" >>

\* One pair of the zip: msg.get('role') != role or 'content' not in msg.
\* get on a value that is no dict raises AttributeError; get of a missing key
\* is None, which equals no role.
MessageCheckRoleOnly(msg, role) ==
    IF ~IsDict(msg) THEN "AttributeError"
    ELSE IF "role" \notin DOMAIN msg \/ msg.role # role THEN "False"
    ELSE "pass"
MessageCheck(msg, role) ==
    IF ~IsDict(msg) THEN "AttributeError"
    ELSE IF \/ "role" \notin DOMAIN msg
            \/ msg.role # role
            \/ "content" \notin DOMAIN msg THEN "False"
    ELSE "pass"

\* The loop of lines 216-218 from the i-th pair on, then return True.
RECURSIVE CheckMessages(_, _)
CheckMessages(messages, i) ==
    IF i > Len(required_roles) THEN "True"
    ELSE LET r == MessageCheck(messages[i], required_roles[i]) IN
         IF r = "pass" THEN CheckMessages(messages, i + 1) ELSE r

\* The try block: "True", "False", or the exception it raises.
validate_body(ex) ==
    IF ~IsDict(ex) THEN "AttributeError"
    ELSE LET messages == IF "messages" \in DOMAIN ex THEN ex.messages ELSE << >>
         IN IF Len(messages) # 3 THEN "False" ELSE CheckMessages(messages, 1)

\* The whole method: except Exception logs and returns False.
validate_example(ex) ==
    LET r == validate_body(ex) IN IF r \in {"True", "False"} THEN r ELSE "False"

Validate ==
    /\ pc = "validate"
    /\ verdict' = validate_example(example)
    /\ pc' = "validated"
    /\ UNCHANGED << max_retries, transcripts, ti, retryVars, style_analysis,
                    genVars, poolVars, dataVars, fileVars, err, example >>

(***************************************************************************)
(* create_datasets(examples) and _save_jsonl(data, filepath): lines        *)
(* 179-206.                                                                *)
(***************************************************************************)
\* int(len(examples) * 0.8)
split_index_fifth(n) == (n * 2) \div 10
split_index(n) == (n * 8) \div 10

\* examples[:split_index] and examples[split_index:]
training_slice(xs) == SubSeq(xs, 1, split_index(Len(xs)))
validation_slice(xs) == SubSeq(xs, split_index(Len(xs)) + 1, Len(xs))

\* random.shuffle(examples): the list in any order.
RECURSIVE Orderings(_)
Orderings(S) ==
    IF S = {} THEN { << >> }
    ELSE UNION { { << x >> \o p : p \in Orderings(S \ {x}) } : x \in S }
shuffle_with_repeats(xs) == [1..Len(xs) -> { xs[i] : i \in 1..Len(xs) }]
shuffle(xs) ==
    { [i \in 1..Len(xs) |-> xs[p[i]]] : p \in Orderings(1..Len(xs)) }

\* json.dumps(item, ensure_ascii=False) + '\n': one line holding the item.
JsonLine(item) == [json |-> item]

\* if not self._validate_example(item): ... continue
WriteAlways(item) == TRUE
ShouldWrite(item) == validate_example(item) = "True"

\* The list _save_jsonl is writing.
Data == IF target = "training.jsonl" THEN training_data ELSE validation_data

\* Lines 181-187: shuffle in place, with the order drawn from a set of
\* outcomes of random.shuffle, split; then the first _save_jsonl call.
ShuffleSplitFrom(orders) ==
    /\ pc = "create_datasets"
    /\ \E xs \in orders :
         /\ all_examples' = xs
         /\ training_data' = training_slice(xs)
         /\ validation_data' = validation_slice(xs)
    /\ target' = "training.jsonl"
    /\ written' = 0
    /\ pc' = "open"
    /\ UNCHANGED << max_retries, transcripts, ti, retryVars, style_analysis,
                    genVars, fileVars, err, validVars >>

ShuffleSplit == ShuffleSplitFrom(shuffle(all_examples))

\* open(filepath, 'w', encoding='utf-8'): truncates the file, or raises OSError.
OpenFile ==
    /\ pc = "open"
    /\ \/ /\ files' = [files EXCEPT ![target] = [exists |-> TRUE, lines |-> << >>]]
          /\ pc' = "write"
          /\ UNCHANGED err
       \/ /\ pc' = "failed"
          /\ err' = [exc |-> "OSError"]
          /\ UNCHANGED files
    /\ UNCHANGED << max_retries, transcripts, ti, retryVars, style_analysis,
                    genVars, poolVars, dataVars, validVars >>

\* One iteration of the loop of lines 197-202: validate the item, skip it or
\* write its line; the write may raise OSError, which line 206 re-raises.
WriteItem ==
    /\ pc = "write"
    /\ written < Len(Data)
    /\ LET item == Data[written + 1] IN
         IF ~ShouldWrite(item)
            THEN /\ written' = written + 1
                 /\ UNCHANGED << pc, files, err >>
            ELSE \/ /\ files' = [files EXCEPT
                                   ![target].lines = Append(@, JsonLine(item))]
                    /\ written' = written + 1
                    /\ UNCHANGED << pc, err >>
                 \/ /\ pc' = "failed"
                    /\ err' = [exc |-> "OSError"]
                    /\ UNCHANGED << files, written >>
    /\ UNCHANGED << max_retries, transcripts, ti, retryVars, style_analysis,
                    genVars, poolVars, training_data, validation_data, target,
                    validVars >>

\* The end of the with block; after training.jsonl comes validation.jsonl
\* (line 188), after validation.jsonl create_datasets returns and process()
\* logs its completion.
CloseFile ==
    /\ pc = "write"
    /\ written = Len(Data)
    /\ IF target = "training.jsonl"
          THEN /\ target' = "validation.jsonl"
               /\ pc' = "open"
          ELSE /\ target' = "none"
               /\ pc' = "done"
    /\ written' = 0
    /\ UNCHANGED << max_retries, transcripts, ti, retryVars, style_analysis,
                    genVars, poolVars, training_data, validation_data,
                    fileVars, err, validVars >>

(***************************************************************************)
(* Inputs of the validator and of the dataset builder.                     *)
(***************************************************************************)
MaxMessages == 4     \* longest messages list given to the validator
MaxPool == 4         \* largest pool given to create_datasets on its own

MessageValues ==
    { [role |-> r, content |-> c] :
        r \in {"system", "user", "assistant", "tool"}, c \in {"", "text"} }
    \cup { [role |-> r] : r \in {"system", "user", "assistant", "tool"} }
    \cup { [content |-> ""], [pytype |-> "str"] }
SeqsUpTo(S, n) == UNION { [1..k -> S] : k \in 0..n }
ExampleValues ==
    { [messages |-> ms] : ms \in SeqsUpTo(MessageValues, MaxMessages) }
    \cup { [pytype |-> "NoneType"], [text |-> "no messages key"] }

\* A pool for create_datasets: well-formed examples, one of them with empty
\* contents, and malformed ones.
PoolExamples ==
    { MakeExample("leadership", "post about leadership #1"),
      [messages |-> << [role |-> "system", content |-> ""],
                       [role |-> "user", content |-> ""],
                       [role |-> "assistant", content |-> ""] >>],
      [messages |-> << [role |-> "system", content |-> SystemPersona],
                       [role |-> "user", content |-> UserPrompt("innovation")],
                       [role |-> "assistant"] >>],
      [messages |-> << [role |-> "system", content |-> SystemPersona],
                       [role |-> "assistant", content |-> "text"] >>] }

\* What a prior, successful run left in the output directory.
PriorLine == JsonLine(MakeExample("a prior run", "an earlier post"))
PriorFiles ==
    [f \in FileNames |-> [exists |-> TRUE, lines |-> << PriorLine >>]]

InitValidate ==
    /\ pc = "validate"
    /\ example \in ExampleValues
    /\ verdict = "none"
    /\ max_retries = DefaultMaxRetries
    /\ transcripts = << >>
    /\ ti = 0
    /\ attempt = 0
    /\ outcomes = << >>
    /\ requests = 0
    /\ waits = 0
    /\ last_request = NoRequest
    /\ style_analysis = NoneValue
    /\ sample = << >>
    /\ examples = << >>
    /\ all_examples = << >>
    /\ training_data = << >>
    /\ validation_data = << >>
    /\ target = "none"
    /\ written = 0
    /\ files = NoFiles
    /\ err = NoError

NextValidate == Validate

SpecValidate == InitValidate /\ [][NextValidate]_vars

InitDatasets ==
    /\ pc = "create_datasets"
    /\ all_examples \in SeqsUpTo(PoolExamples, MaxPool)
    /\ files \in {NoFiles, PriorFiles}
    /\ max_retries = DefaultMaxRetries
    /\ transcripts = << >>
    /\ ti = 0
    /\ attempt = 0
    /\ outcomes = << >>
    /\ requests = 0
    /\ waits = 0
    /\ last_request = NoRequest
    /\ style_analysis = NoneValue
    /\ sample = << >>
    /\ examples = << >>
    /\ training_data = << >>
    /\ validation_data = << >>
    /\ target = "none"
    /\ written = 0
    /\ err = NoError
    /\ example = NoneValue
    /\ verdict = "none"

NextDatasets == ShuffleSplit \/ OpenFile \/ WriteItem \/ CloseFile

SpecDatasets == InitDatasets /\ [][NextDatasets]_vars

(***************************************************************************)
(* process() and load_transcripts(): lines 36-58 and 226-248. Every        *)
(* exception of the run passes the handler of lines 246-248, which logs    *)
(* and re-raises it: the run ends in pc = "failed".                        *)
(***************************************************************************)
MaxTranscripts == 2   \* most transcript files in the transcripts directory
MaxRunSamples == 1    \* outcomes of random.sample a whole run chooses among

TranscriptFiles ==
    << [filename |-> "a.txt", content |-> "text-a"],
       [filename |-> "b.txt", content |-> "text-b"],
       [filename |-> "c.txt", content |-> "text-c"],
       [filename |-> "d.txt", content |-> "text-d"] >>

\* What the glob of line 41 and the reads of lines 45-51 can produce.
TranscriptLists ==
    { SubSeq(TranscriptFiles, 1, n) :
        n \in 0..(IF MaxTranscripts < Len(TranscriptFiles)
                     THEN MaxTranscripts ELSE Len(TranscriptFiles)) }

\* The samples a whole run draws from: runs of 5 consecutive topics, each an
\* outcome of random.sample.
RunSamples ==
    { [i \in 1..SampleSize |-> topics[k + i]] :
        k \in 0..(IF MaxRunSamples - 1 < Len(topics) - SampleSize
                     THEN MaxRunSamples - 1 ELSE Len(topics) - SampleSize) }
    \cap random_sample(ExploredTopics, SampleSize)

\* The orders a whole run shuffles into: the pool as it is, reversed, and
\* rotated by one, each an outcome of random.shuffle.
RunShuffles(xs) ==
    LET n == Len(xs) IN
    { xs,
      [i \in 1..n |-> xs[n + 1 - i]],
      [i \in 1..n |-> xs[(i % n) + 1]] }

\* Load without the test of line 42 for an empty glob.
LoadAllowsEmpty ==
    /\ pc = "start"
    /\ \E ts \in TranscriptLists :
         \/ /\ transcripts' = ts
            /\ pc' = "for_transcript"
            /\ UNCHANGED err
         \/ /\ ts # << >>
            /\ pc' = "failed"
            /\ err' = [exc |-> "OSError"]
            /\ UNCHANGED transcripts
    /\ UNCHANGED << max_retries, ti, retryVars, style_analysis, genVars,
                    poolVars, dataVars, fileVars, validVars >>

\* transcripts = self.load_transcripts() and all_examples = [] (lines 232-235):
\* no *.txt file raises FileNotFoundError, a file that cannot be read raises
\* too.
Load ==
    /\ pc = "start"
    /\ \E ts \in TranscriptLists :
         IF ts = << >>
            THEN /\ pc' = "failed"
                 /\ err' = [exc |-> "FileNotFoundError"]
                 /\ UNCHANGED transcripts
            ELSE \/ /\ transcripts' = ts
                    /\ pc' = "for_transcript"
                    /\ UNCHANGED err
                 \/ /\ pc' = "failed"
                    /\ err' = [exc |-> "OSError"]
                    /\ UNCHANGED transcripts
    /\ UNCHANGED << max_retries, ti, retryVars, style_analysis, genVars,
                    poolVars, dataVars, fileVars, validVars >>

\* The loop test of line 236: the next transcript goes to analyze_style
\* (line 237), and after the last one comes create_datasets (line 242).
NextTranscript ==
    /\ pc = "for_transcript"
    /\ IF ti < Len(transcripts)
          THEN /\ pc' = "loop"
               /\ attempt' = 0
               /\ outcomes' = << >>
          ELSE /\ pc' = "create_datasets"
               /\ UNCHANGED << attempt, outcomes >>
    /\ UNCHANGED << max_retries, transcripts, ti, requests, waits, last_request,
                    style_analysis, genVars, poolVars, dataVars, fileVars, err,
                    validVars >>

\* Extend replacing the pool by the examples of the current transcript.
ExtendOverwrites ==
    /\ pc = "generated"
    /\ all_examples' = examples
    /\ ti' = ti + 1
    /\ examples' = << >>
    /\ sample' = << >>
    /\ pc' = "for_transcript"
    /\ UNCHANGED << max_retries, transcripts, retryVars, style_analysis,
                    dataVars, fileVars, err, validVars >>

\* Extend handing the pool to create_datasets as soon as one transcript's
\* examples are in it, as a streaming consumer would.
ExtendThenBuild ==
    /\ pc = "generated"
    /\ all_examples' = all_examples \o examples
    /\ ti' = ti + 1
    /\ examples' = << >>
    /\ sample' = << >>
    /\ pc' = "create_datasets"
    /\ UNCHANGED << max_retries, transcripts, retryVars, style_analysis,
                    dataVars, fileVars, err, validVars >>

\* all_examples.extend(examples) (line 239), and on to the next transcript.
Extend ==
    /\ pc = "generated"
    /\ all_examples' = all_examples \o examples
    /\ ti' = ti + 1
    /\ examples' = << >>
    /\ sample' = << >>
    /\ pc' = "for_transcript"
    /\ UNCHANGED << max_retries, transcripts, retryVars, style_analysis,
                    dataVars, fileVars, err, validVars >>

RunGenerateStart == GenerateStartFrom(RunSamples)
RunShuffleSplit == ShuffleSplitFrom(RunShuffles(all_examples))

\* TranscriptProcessor() as constructed, before process() is called; the
\* output directory is empty or holds the files of a prior run.
Init ==
    /\ pc = "start"
    /\ max_retries = DefaultMaxRetries
    /\ files \in {NoFiles, PriorFiles}
    /\ transcripts = << >>
    /\ ti = 0
    /\ attempt = 0
    /\ outcomes = << >>
    /\ requests = 0
    /\ waits = 0
    /\ last_request = NoRequest
    /\ style_analysis = NoneValue
    /\ sample = << >>
    /\ examples = << >>
    /\ all_examples = << >>
    /\ training_data = << >>
    /\ validation_data = << >>
    /\ target = "none"
    /\ written = 0
    /\ err = NoError
    /\ example = NoneValue
    /\ verdict = "none"

Next ==
    \/ Load
    \/ NextTranscript
    \/ LoopHead
    \/ Request
    \/ Sleep
    \/ RunGenerateStart
    \/ Synth
    \/ GenerateReturn
    \/ Extend
    \/ RunShuffleSplit
    \/ OpenFile
    \/ WriteItem
    \/ CloseFile

Spec == Init /\ [][Next]_vars

(***************************************************************************)
(* Claims about the retry loop, checked under SpecRetry.                   *)
(***************************************************************************)
Last(s) == s[Len(s)]
AllFailed(s) == \A i \in 1..Len(s) : s[i] \in Failures
Returned == pc = "analyzed"
Raised == pc = "failed"
CallOver == ~ ENABLED NextRetry

\* C1: with max_retries = 3, a call whose first two requests fail and whose
\* third succeeds returns that third response without raising, after exactly
\* 3 requests and exactly 2 waits, and does nothing more after the success.
C1_FailFailSucceed ==
    /\ max_retries = DefaultMaxRetries
    /\ Len(outcomes) = 3
    /\ outcomes[1] \in Failures
    /\ outcomes[2] \in Failures
    /\ outcomes[3] = [exc |-> "ok"]
C1_ReturnsThirdResponse ==
    C1_FailFailSucceed =>
        /\ Returned
        /\ err = NoError
        /\ style_analysis \in AnalysisBodies(CurrentText)
        /\ requests = 3
        /\ waits = 2
        /\ CallOver
C1_Witness ==
    /\ C1_FailFailSucceed
    /\ outcomes[1].exc = "HTTPError"
    /\ outcomes[2].exc = "Timeout"
    /\ Returned

\* C2: with max_retries = 3, a call whose every request fails raises after
\* exactly 3 requests and exactly 2 waits: each failure but the last is
\* followed by one wait, the last failure is the error raised, nothing follows.
C2_RaisesAfterThreeAttempts ==
    (max_retries = DefaultMaxRetries /\ AllFailed(outcomes)) =>
        /\ Len(outcomes) <= 3
        /\ requests = Len(outcomes)
        /\ pc \in {"loop", "request"} => waits = Len(outcomes)
        /\ pc = "sleep" => waits = Len(outcomes) - 1 /\ Len(outcomes) < 3
        /\ ~Returned
        /\ Raised => /\ Len(outcomes) = 3
                     /\ requests = 3
                     /\ waits = 2
                     /\ err = Last(outcomes)
                     /\ CallOver
        /\ Len(outcomes) = 3 => Raised
C2_Witness ==
    /\ max_retries = DefaultMaxRetries
    /\ AllFailed(outcomes)
    /\ Len(outcomes) = 3
    /\ Raised
    /\ waits = 2

\* C3: every kind of failure is handled alike: a failed request on any attempt
\* but the last leads to the wait and a further attempt, whatever failed (a
\* 4xx or 5xx status, the transport, the parse of the body), and the failure
\* is raised only on the last attempt.
FailedRequestStep ==
    /\ pc = "request"
    /\ Len(outcomes') = Len(outcomes) + 1
    /\ Last(outcomes') \in Failures
C3_EveryFailureRetried ==
    [][FailedRequestStep =>
          /\ attempt < max_retries - 1 => pc' = "sleep" /\ err' = NoError
          /\ attempt = max_retries - 1 => pc' = "failed" /\ err' = Last(outcomes')
          /\ pc' \in {"sleep", "failed"}]_vars
C3_Witness ==
    /\ max_retries = DefaultMaxRetries
    /\ Len(outcomes) = 3
    /\ outcomes[1] = [exc |-> "HTTPError", status |-> 401]
    /\ outcomes[2] = [exc |-> "JSONDecodeError"]
    /\ outcomes[3] = [exc |-> "HTTPError", status |-> 400]
    /\ Raised
    /\ waits = 2

(***************************************************************************)
(* Claims about the example generator, checked under SpecGen.              *)
(***************************************************************************)
\* C4: a failed HTTP request of a per-topic synthesis call is retried with the
\* fixed delay up to max_retries attempts, and its failure reaches the example
\* generator only once those attempts are used up.
C4_SynthesisRetried ==
    (Raised /\ last_request.call = "synth" /\ err \in Failures) =>
        /\ Len(outcomes) = max_retries
        /\ waits = max_retries - 1

\* C10: one call of the generator draws 5 pairwise distinct topics of the pool
\* of 14, issues exactly 5 synthesis requests, one per drawn topic and in the
\* order drawn, and returns exactly 5 examples, the k-th with the user content
\* "Write a social media post about " followed by the k-th topic and with the
\* assistant content synthesized for that topic.
C10_FiveExamplesOnePerTopic ==
    /\ Cardinality(Topics) = 14
    /\ pc \in {"synth", "generated"} =>
         /\ Len(sample) = 5
         /\ \A i \in 1..5 : sample[i] \in Topics
         /\ \A i, j \in 1..5 : i # j => sample[i] # sample[j]
         /\ requests = Len(examples)
         /\ Len(examples) > 0 =>
              /\ last_request.call = "synth"
              /\ last_request.topic = sample[Len(examples)]
              /\ last_request.style_analysis = style_analysis
         /\ \A k \in 1..Len(examples) :
              /\ Len(examples[k].messages) = 3
              /\ examples[k].messages[1] =
                     [role |-> "system", content |-> SystemPersona]
              /\ examples[k].messages[2] =
                     [role |-> "user",
                      content |-> "Write a social media post about " \o sample[k]]
              /\ examples[k].messages[3].role = "assistant"
              /\ examples[k].messages[3].content \in SynthTexts(style_analysis, sample[k])
    /\ pc = "generated" => Len(examples) = 5 /\ requests = 5 /\ waits = 0
C10_Witness ==
    /\ pc = "generated"
    /\ sample = << "leadership", "innovation", "industry insights",
                   "workplace culture", "technology trends" >>
    /\ Len(examples) = 5
    /\ examples[4].messages[2].content =
           "Write a social media post about workplace culture"
    /\ requests = 5

(***************************************************************************)
(* Claims about the validator, checked under SpecValidate.                 *)
(***************************************************************************)
\* Exactly 3 messages, with the roles system, user, assistant in that order,
\* each with a content field.
HasRoleAndContent(msg, role) ==
    /\ DOMAIN msg \cap {"role", "content"} = {"role", "content"}
    /\ msg.role = role
WellFormed(ex) ==
    /\ "messages" \in DOMAIN ex
    /\ Len(ex.messages) = 3
    /\ HasRoleAndContent(ex.messages[1], "system")
    /\ HasRoleAndContent(ex.messages[2], "user")
    /\ HasRoleAndContent(ex.messages[3], "assistant")

\* C8: the validator answers every input with a boolean and raises nothing,
\* and it answers true exactly for the examples of 3 messages whose roles are
\* system, user, assistant in that order and which all have a content field,
\* an empty string counting as content.
C8_ValidIffWellFormed ==
    pc = "validated" =>
        /\ verdict \in {"True", "False"}
        /\ verdict = "True" <=> WellFormed(example)
C8_Witness ==
    /\ pc = "validated"
    /\ example = [messages |-> << [role |-> "system", content |-> ""],
                                  [role |-> "user", content |-> "text"],
                                  [role |-> "assistant", content |-> ""] >>]
    /\ verdict = "True"

(***************************************************************************)
(* Claims about the dataset builder, checked under SpecDatasets.           *)
(***************************************************************************)
Count(x, s) == Cardinality({ i \in 1..Len(s) : s[i] = x })
Elements(s) == { s[i] : i \in 1..Len(s) }
IsPermutation(s, t) ==
    /\ Len(s) = Len(t)
    /\ \A x \in Elements(s) \cup Elements(t) : Count(x, s) = Count(x, t)
IsValid(x) == validate_example(x) = "True"
NumValid(s) == Cardinality({ i \in 1..Len(s) : IsValid(s[i]) })
LinesOf(s) == [i \in 1..Len(s) |-> JsonLine(s[i])]
TrainingLines == files["training.jsonl"].lines
ValidationLines == files["validation.jsonl"].lines
Untouched == files \in {NoFiles, PriorFiles}

\* C5: a run that fails at any point, be it while an output file is being
\* written, leaves training.jsonl and validation.jsonl as they were before
\* the run; the files change only once every transcript has been processed,
\* and a run that succeeds has written both completely.
C5_FailedRunLeavesFilesUntouched ==
    /\ Raised => Untouched
    /\ ~Untouched => ti = Len(transcripts) /\ pc \in {"write", "open", "done", "failed"}
    /\ pc = "done" =>
           /\ TrainingLines = LinesOf(SelectSeq(training_data, IsValid))
           /\ ValidationLines = LinesOf(SelectSeq(validation_data, IsValid))

\* C6 as stated: of a pool with N' valid examples, N' lines are persisted in
\* all and floor(0.8 * N') of them in training.jsonl.
C6_TrainingIsFloorOfValid ==
    pc = "done" =>
        /\ Len(TrainingLines) + Len(ValidationLines) = NumValid(all_examples)
        /\ Len(TrainingLines) = (4 * NumValid(all_examples)) \div 5

\* C6 as amended: of a pool of N examples with N' valid ones, N' lines are
\* persisted in all, and training.jsonl holds the valid examples among the
\* first floor(0.8 * N) of the shuffled pool: at most floor(0.8 * N) lines,
\* and floor(0.8 * N') lines when every example is valid.
C6_TrainingIsValidPartOfSplit ==
    pc = "done" =>
        LET n == Len(all_examples) IN
        /\ Len(TrainingLines) + Len(ValidationLines) = NumValid(all_examples)
        /\ Len(TrainingLines) = NumValid(SubSeq(all_examples, 1, (4 * n) \div 5))
        /\ Len(TrainingLines) <= (4 * n) \div 5
        /\ NumValid(all_examples) = n => Len(TrainingLines) = (4 * n) \div 5
C6_Witness ==
    /\ pc = "done"
    /\ Len(all_examples) = 4
    /\ NumValid(all_examples) = 3
    /\ Len(TrainingLines) = 3
    /\ Len(ValidationLines) = 0

\* C7: every line of the output files is an example the validator accepts,
\* and an example it rejects is passed over while the examples after it are
\* still written: a finished file holds the accepted examples of its
\* partition, all of them and in order.
C7_OnlyValidExamplesPersisted ==
    /\ \A f \in FileNames : \A i \in 1..Len(files[f].lines) :
           IsValid(files[f].lines[i].json)
    /\ pc = "write" =>
           files[target].lines = LinesOf(SelectSeq(SubSeq(Data, 1, written), IsValid))
    /\ pc = "done" =>
           /\ TrainingLines = LinesOf(SelectSeq(training_data, IsValid))
           /\ ValidationLines = LinesOf(SelectSeq(validation_data, IsValid))
C7_Witness ==
    /\ pc = "done"
    /\ Len(training_data) = 3
    /\ ~IsValid(training_data[1])
    /\ IsValid(training_data[2])
    /\ ~IsValid(training_data[3])
    /\ TrainingLines = << JsonLine(training_data[2]) >>

\* C9: shuffle and split turn a pool of N examples into a training partition
\* of floor(0.8 * N) examples and a validation partition of the other
\* N - floor(0.8 * N), which together are the pool in another order, nothing
\* lost and nothing twice; an empty pool gives two empty partitions and no
\* error.
C9_SplitIsPartitionOfPool ==
    [][pc = "create_datasets" =>
          LET n == Len(all_examples) IN
          /\ Len(training_data') = (4 * n) \div 5
          /\ Len(validation_data') = n - (4 * n) \div 5
          /\ IsPermutation(training_data' \o validation_data', all_examples)
          /\ pc' # "failed"
          /\ n = 0 => training_data' = << >> /\ validation_data' = << >>]_vars
C9_Witness ==
    /\ pc = "open"
    /\ target = "training.jsonl"
    /\ Len(training_data) = 3
    /\ Len(validation_data) = 1
    /\ Cardinality(Elements(all_examples)) = 4
    /\ training_data \o validation_data = all_examples

(***************************************************************************)
(* Claims about the whole run, checked under Spec.                         *)
(***************************************************************************)
AssistantText(ex) == ex.messages[3].content
\* The texts the service can synthesize from an analysis of the given text.
TextsOf(text) ==
    UNION { SynthTexts(body, t) : body \in AnalysisBodies(text), t \in Topics }
TextsByTranscript ==
    [text \in { TranscriptFiles[i].content : i \in 1..Len(TranscriptFiles) }
        |-> TextsOf(text)]
TextsFrom(text) == TextsByTranscript[text]
SynthFailed == Raised /\ last_request.call = "synth" /\ err \in SynthFailures

\* C11: when one synthesis call of a transcript fails, the failure leaves the
\* example generator and nothing of that transcript reaches the pool, the
\* examples already synthesized for it included: the pool holds five examples
\* for each transcript processed in full and none made from the analysis of
\* the transcript in progress.
C11_NoPartialExampleSet ==
    /\ Len(all_examples) = 5 * ti
    /\ ti < Len(transcripts) =>
         \A i \in 1..Len(all_examples) :
             AssistantText(all_examples[i]) \notin TextsFrom(CurrentText)
    /\ SynthFailed =>
         /\ outcomes = << err >>
         /\ ti < Len(transcripts)
         /\ examples = << >>
C11_Witness ==
    /\ SynthFailed
    /\ ti = 1
    /\ waits = 0
    /\ requests = 10
    /\ Len(all_examples) = 5
    /\ err = [exc |-> "HTTPError", status |-> 500]

\* A step that issues an HTTP request whose failure is final: a failed request
\* of a synthesis call, or a failed last attempt of an analysis call.
FatalApiFailureStep ==
    /\ requests' = requests + 1
    /\ Last(outcomes') \in SynthFailures
    /\ pc = "synth" \/ (pc = "request" /\ attempt = max_retries - 1)
ApiFailed == Raised /\ err \in SynthFailures
BuilderNeverRan ==
    /\ target = "none"
    /\ training_data = << >>
    /\ validation_data = << >>
    /\ Untouched

\* C12: a fatal API failure for one transcript (an analysis out of attempts, a
\* failed synthesis) ends the whole run in the error state: the failure is the
\* error of the run, no step follows it, so no request is issued for a later
\* transcript, and the dataset builder never runs.
C12_ApiFailureAbortsRun ==
    /\ [][FatalApiFailureStep =>
             /\ pc' = "failed"
             /\ err' = Last(outcomes')
             /\ UNCHANGED << ti, all_examples, files >>]_vars
    /\ [][~ApiFailed]_vars
    /\ [](ApiFailed => ti < Len(transcripts) /\ BuilderNeverRan)
C12_Witness ==
    /\ ApiFailed
    /\ Len(transcripts) = 2
    /\ ti = 0
    /\ last_request.call = "analyze"
    /\ requests = 3
    /\ waits = 2

SourceEmpty == err = [exc |-> "FileNotFoundError"]

\* C13: a run over an empty transcript source fails with the error of the
\* empty source before any HTTP request is issued and leaves the output files
\* as they were; no run gets past loading with no transcript.
C13_EmptySourceFailsFirst ==
    /\ SourceEmpty =>
         /\ Raised
         /\ transcripts = << >>
         /\ requests = 0
         /\ waits = 0
         /\ last_request = NoRequest
         /\ BuilderNeverRan
    /\ pc \notin {"start", "failed"} => Len(transcripts) >= 1
    /\ requests > 0 => Len(transcripts) >= 1
    /\ ~Untouched => Len(transcripts) >= 1
C13_Witness ==
    /\ SourceEmpty
    /\ Raised
    /\ files = PriorFiles
    /\ requests = 0

\* A synthesis request answered with a 2xx response that lacks
\* choices[0].message.content.
FormatFailureStep ==
    /\ pc = "synth"
    /\ requests' = requests + 1
    /\ Last(outcomes') \in FormatFailures
FormatFailed == Raised /\ err \in FormatFailures

\* C14: a synthesis response with a successful status but without the
\* generated text makes the synthesis call fail with the error of the missing
\* field after that one request: it is not retried, no wait and no request
\* follow, and the run ends in the error state as for an API error, the
\* dataset builder never having run.
C14_FormatErrorNotRetried ==
    /\ [][FormatFailureStep =>
             /\ pc' = "failed"
             /\ err' = Last(outcomes')
             /\ Len(outcomes') = 1
             /\ UNCHANGED << waits, ti, all_examples, files >>]_vars
    /\ [][~FormatFailed]_vars
    /\ [](FormatFailed =>
             /\ last_request.call = "synth"
             /\ ti < Len(transcripts)
             /\ BuilderNeverRan)
C14_Witness ==
    /\ FormatFailed
    /\ err = [exc |-> "KeyError"]
    /\ last_request.call = "synth"
    /\ requests = 4
    /\ waits = 0
    /\ all_examples = << >>

\* The positions of process() inside create_datasets and after it.
InBuilder == pc \in {"create_datasets", "open", "write", "done"}
BuilderInvoked == pc # "create_datasets" /\ pc' = "create_datasets"
BuilderShuffles == pc = "create_datasets" /\ pc' # "create_datasets"

\* C15: create_datasets is invoked at most once in a run, and only when the
\* loop over the transcripts is exhausted, every transcript having had its
\* analysis and its five synthesis calls succeed; the pool it shuffles and
\* splits is the whole accumulated pool of 5 examples per transcript.
C15_BuilderIsBarrier ==
    /\ [][BuilderInvoked =>
             /\ pc = "for_transcript"
             /\ ti = Len(transcripts)
             /\ target = "none"
             /\ UNCHANGED all_examples]_vars
    /\ [][InBuilder \/ Raised =>
             pc' \in {"open", "write", "done", "failed"}]_vars
    /\ [][BuilderShuffles =>
             /\ IsPermutation(all_examples', all_examples)
             /\ Len(training_data') + Len(validation_data')
                  = 5 * Len(transcripts)]_vars
    /\ [](InBuilder =>
             /\ Len(transcripts) >= 1
             /\ ti = Len(transcripts)
             /\ examples = << >>
             /\ Len(all_examples) = 5 * Len(transcripts)
             /\ requests - waits = 6 * Len(transcripts))
C15_Witness ==
    /\ pc = "open"
    /\ target = "training.jsonl"
    /\ Len(transcripts) = 2
    /\ Len(all_examples) = 10
    /\ waits = 4
    /\ Untouched

\* A step that issues a request; requests.post blocks, so the step that issues
\* a request is also the step that sees its outcome.
RequestStep == requests' # requests
AnalysisRequestStep == RequestStep /\ last_request'.call = "analyze"
SynthRequestStep == RequestStep /\ last_request'.call = "synth"

\* The requests of the run that were not followed by a wait: the successful
\* ones and, in a failed run, the fatal one.
Answered == requests - waits

\* C16: requests are issued one per step and each is over before the next step;
\* a synthesis request is issued only after the analysis of the current
\* transcript has returned its result and after the synthesis calls of the
\* earlier topics of the sample have succeeded; an analysis request is issued
\* only when every earlier transcript has its five examples in the pool and
\* no synthesis of the current transcript has been made.
C16_RequestsInFixedOrder ==
    /\ [][RequestStep =>
             /\ requests' = requests + 1
             /\ pc \in {"request", "synth"}
             /\ Len(outcomes') >= 1]_vars
    /\ [][SynthRequestStep =>
             /\ pc = "synth"
             /\ style_analysis \in AnalysisBodies(CurrentText)
             /\ Len(examples) < SampleSize
             /\ last_request'.topic = sample[Len(examples) + 1]
             /\ Len(all_examples) = SampleSize * ti
             /\ Answered = (SampleSize + 1) * ti + 1 + Len(examples)
             /\ last_request.call = "synth" <=> Len(examples) >= 1]_vars
    /\ [][AnalysisRequestStep =>
             /\ pc = "request"
             /\ last_request'.text = CurrentText
             /\ examples = << >>
             /\ Len(all_examples) = SampleSize * ti
             /\ Answered = (SampleSize + 1) * ti
             /\ last_request.call = "synth" <=> (ti >= 1 /\ attempt = 0)]_vars
C16_Witness ==
    /\ pc = "analyzed"
    /\ ti = 1
    /\ last_request = [call |-> "analyze", text |-> "text-b"]
    /\ Len(all_examples) = 5
    /\ requests = 8
    /\ waits = 1

\* The text of the k-th loaded transcript, and the positions of process()
\* between the return of analyze_style and the extension of the pool.
TranscriptText(k) == transcripts[k].content
HoldsAnalysis == pc \in {"analyzed", "synth", "generated"}

\* The analysis requests answered with success so far, in a run that has not
\* failed and is not waiting: the answered requests less the synthesis
\* requests, each of which left one example.
SuccessfulAnalyses == Answered - Len(all_examples) - Len(examples)

\* C17: the style analysis in use is the body returned by the one successful
\* analysis request made for the current transcript; it is assigned by that
\* request only, it is what each synthesis request of the transcript carries,
\* and no synthesis request changes it.
C17_OwnAnalysisUnmodified ==
    /\ [](HoldsAnalysis =>
             /\ style_analysis \in AnalysisBodies(TranscriptText(ti + 1))
             /\ SuccessfulAnalyses = ti + 1)
    /\ [](pc \in {"for_transcript", "loop", "request"} =>
             SuccessfulAnalyses = ti)
    /\ [][style_analysis' # style_analysis =>
             /\ pc = "request"
             /\ pc' = "analyzed"
             /\ Last(outcomes') = [exc |-> "ok"]
             /\ last_request' = [call |-> "analyze",
                                 text |-> TranscriptText(ti + 1)]
             /\ UNCHANGED ti]_vars
    /\ [][SynthRequestStep =>
             /\ last_request'.style_analysis = style_analysis
             /\ last_request'.style_analysis
                  \in AnalysisBodies(TranscriptText(ti + 1))
             /\ UNCHANGED << style_analysis, ti >>]_vars
    /\ [][ti' # ti =>
             /\ ti' = ti + 1
             /\ pc = "generated"
             /\ Len(examples) = SampleSize
             /\ \A i \in 1..Len(examples) :
                  AssistantText(examples[i])
                    \in SynthTexts(style_analysis, sample[i])]_vars
C17_Witness ==
    /\ pc = "synth"
    /\ ti = 1
    /\ Len(examples) = 5
    /\ style_analysis = [analysis_of |-> "text-b", variant |-> 2]
    /\ last_request.call = "synth"
    /\ last_request.style_analysis = style_analysis

\* C18: under every retry limit from 0 up, a call of analyze_style that
\* returns normally returns the body of a successful request it made: the
\* last request of the call succeeded and the result is its body, never the
\* absence of a value.
C18_NeverReturnsNothing ==
    Returned =>
        /\ Len(outcomes) >= 1
        /\ Last(outcomes) = [exc |-> "ok"]
        /\ style_analysis \in AnalysisBodies(CurrentText)
        /\ style_analysis # NoneValue

\* The pool as process() accumulates it, before create_datasets shuffles it,
\* and the transcript whose examples stand at position i of that pool.
BeforeShuffle == target = "none" /\ pc # "done"
OwnerOf(i) == ((i - 1) \div SampleSize) + 1

\* C19: when a run over T >= 1 transcripts calls create_datasets, the pool
\* holds exactly 5 * T examples, those of the k-th transcript at positions
\* 5 * (k - 1) + 1 .. 5 * k, each with a text synthesized from an analysis of
\* that transcript; T analysis requests and 5 * T synthesis requests have
\* succeeded and no other request was left unanswered by a wait.
C19_PoolHasFivePerTranscript ==
    /\ BeforeShuffle =>
         /\ Len(all_examples) <= SampleSize * Len(transcripts)
         /\ \A i \in 1..Len(all_examples) :
              AssistantText(all_examples[i])
                \in TextsFrom(TranscriptText(OwnerOf(i)))
    /\ pc = "create_datasets" =>
         /\ Len(transcripts) >= 1
         /\ Len(all_examples) = SampleSize * Len(transcripts)
         /\ examples = << >>
         /\ SuccessfulAnalyses = Len(transcripts)
         /\ Answered - SuccessfulAnalyses = SampleSize * Len(transcripts)
C19_Witness ==
    /\ pc = "create_datasets"
    /\ Len(transcripts) = 2
    /\ Len(all_examples) = 10
    /\ requests = 14
    /\ waits = 2
    /\ AssistantText(all_examples[6]) \in TextsFrom("text-b")

\* The run under the assumption that every step that can be taken is taken in
\* the end: every request returns or fails, every wait ends, every file
\* operation returns or raises.
FairSpec == Spec /\ WF_vars(Next)

\* process() has returned, or has re-raised the error of the run.
Terminated == pc \in {"done", "failed"}

\* C20: a run over T transcripts ends, in success or in the error state,
\* whatever the outcomes of its requests; at every moment it has issued at
\* most T * (max_retries + 5) requests and waited at most
\* T * (max_retries - 1) times, and nothing happens after its end.
C20_TerminatesWithinBounds ==
    /\ [](/\ requests <= Len(transcripts) * (max_retries + SampleSize)
          /\ waits <= Len(transcripts) * (max_retries - 1))
    /\ [][~Terminated]_vars
    /\ <>Terminated
C20_Witness ==
    /\ pc = "done"
    /\ Len(transcripts) = 2
    /\ requests = 2 * (max_retries + SampleSize)
    /\ waits = 2 * (max_retries - 1)

====
